---- MODULE Spec2Model ----
(***************************************************************************)
(* Conway's Game of Life on a 16x16 toroidal LED grid (cgol.ino): the life *)
(* step on packed rows, the periodicity detector, the page selector driven *)
(* by the rotary encoder interrupt and the push button, and the main loop. *)
(***************************************************************************)
EXTENDS Integers, Sequences, FiniteSets, TLC

(***************************************************************************)
(* Program constants                                                       *)
(***************************************************************************)
x == 2
y == 2
s == 8
n == y * s
m == x * s
lim == 9
minSpeed == 42
maxSpeed == 2500
periodicTimeout == 5000

(***************************************************************************)
(* Bounds of the model                                                     *)
(***************************************************************************)
MaxGen == 2       \* Spec: life steps taken by the main loop
MaxEnc == 1       \* Spec, SpecSave: encoder detents delivered to the interrupt handler
MaxPress == 2     \* Spec: button presses seen by readButt()
MaxLifeGen == 64  \* SpecLife: life steps applied to one input grid
MaxEncPage == 11  \* SpecPage: encoder detents delivered to the interrupt handler
MaxPressPage == 1 \* SpecPage: button presses seen by readButt()
MaxPressRR == 8   \* SpecSave: button presses seen by readButt()
MaxGenDetect == 6   \* SpecDetect: life steps taken by the main loop
MaxPressDetect == 2 \* SpecDetect: button presses seen by readButt()
MaxGenGlider == 131 \* SpecGlider: life steps taken by the main loop
MaxReading == 1023  \* SpecPot: the largest value analogRead() returns (10 bits)
MaxGenTurn == 2     \* SpecTurn: life steps taken by the main loop
MaxEncTurn == 2     \* SpecTurn: encoder detents delivered to the interrupt handler

Rows == 0 .. (n - 1)
Halves == 0 .. (x - 1)
Cols == 0 .. (m - 1)

\* unsigned int is at least 16 bits wide on every Arduino board; every value
\* the program stores in one stays below 2^16, so the narrowest width is kept.
UIntMod == 65536

(***************************************************************************)
(* Grids: unsigned int u[n][x], one byte of cells per half row, and the    *)
(* packed form unsigned int t[n], one 16-bit word per row.                  *)
(***************************************************************************)
MkGrid(lit) == [i \in Rows |-> [j \in Halves |-> lit[i + 1][j + 1]]]

ZeroGrid == [i \in Rows |-> [j \in Halves |-> 0]]

ZeroRows == [i \in Rows |-> 0]

P1Init ==
  MkGrid(<< <<0, 0>>, <<0, 0>>, <<0, 0>>, <<56, 0>>, <<8, 0>>, <<16, 0>>, <<0, 0>>, <<0, 0>>,
            <<0, 0>>, <<0, 0>>, <<0, 0>>, <<0, 0>>, <<0, 0>>, <<0, 0>>, <<0, 0>>, <<0, 0>> >>)

P2Init ==
  MkGrid(<< <<0, 0>>, <<0, 0>>, <<0, 0>>, <<0, 0>>,
            <<5, 128>>, <<8, 16>>, <<24, 144>>, <<208, 96>>,
            <<208, 96>>, <<24, 144>>, <<8, 16>>, <<5, 128>>,
            <<0, 0>>, <<0, 0>>, <<0, 0>>, <<0, 0>> >>)

P3Init ==
  MkGrid(<< <<0, 0>>, <<0, 0>>, <<0, 0>>, <<0, 0>>,
            <<28, 112>>, <<34, 136>>, <<34, 136>>, <<94, 244>>,
            <<96, 12>>, <<0, 0>>, <<0, 0>>, <<6, 192>>,
            <<10, 160>>, <<4, 64>>, <<0, 0>>, <<0, 0>> >>)

bitRead(v, k) == (v \div (2 ^ k)) % 2

\* the packing with the left byte shifted by 7 bits
PackShiftSeven(u) == [i \in Rows |-> ((u[i][0] * 128) + u[i][1]) % UIntMod]

\* aTemp[i] = (a[i][0] << 8) + a[i][1]
Pack(u) == [i \in Rows |-> ((u[i][0] * 256) + u[i][1]) % UIntMod]

\* the unpacking without the mask of the right byte
UnpackUnmasked(t) == [i \in Rows |-> [j \in Halves |-> IF j = 0 THEN t[i] \div 256 ELSE t[i]]]

\* a[i][0] = aTemp2[i] >> 8;  a[i][1] = aTemp2[i] & 255
Unpack(t) == [i \in Rows |-> [j \in Halves |-> IF j = 0 THEN t[i] \div 256 ELSE t[i] % 256]]

(***************************************************************************)
(* rules(): the sweep over the packed snapshot aTemp, writing aTemp2       *)
(***************************************************************************)
\* the count without the neighbour below and to the left of the cell
totalOfSeven(t, i, k) ==
    bitRead(t[(i + (n - 1)) % n], (k + (m - 1)) % m)
  + bitRead(t[i], (k + (m - 1)) % m)
  + bitRead(t[(i + 1) % n], (k + (m - 1)) % m)
  + bitRead(t[(i + (n - 1)) % n], k)
  + bitRead(t[(i + 1) % n], k)
  + bitRead(t[(i + (n - 1)) % n], (k + 1) % m)
  + bitRead(t[i], (k + 1) % m)

total(t, i, k) ==
    bitRead(t[(i + (n - 1)) % n], (k + (m - 1)) % m)
  + bitRead(t[i], (k + (m - 1)) % m)
  + bitRead(t[(i + 1) % n], (k + (m - 1)) % m)
  + bitRead(t[(i + (n - 1)) % n], k)
  + bitRead(t[(i + 1) % n], k)
  + bitRead(t[(i + (n - 1)) % n], (k + 1) % m)
  + bitRead(t[i], (k + 1) % m)
  + bitRead(t[(i + 1) % n], (k + 1) % m)

\* the rule with a dead cell born of 3 live neighbours or fewer
newBitBornEarly(t, i, k) ==
  LET tot == total(t, i, k)
  IN IF bitRead(t[i], k) = 1
       THEN (IF tot < 2 \/ tot > 3 THEN 0 ELSE 1)
       ELSE (IF tot <= 3 THEN 1 ELSE 0)

\* the value bit k of aTemp2[i] has after the sweep visited cell (i, k)
newBit(t, i, k) ==
  LET tot == total(t, i, k)
  IN IF bitRead(t[i], k) = 1
       THEN (IF tot < 2 \/ tot > 3 THEN 0 ELSE 1)
       ELSE (IF tot = 3 THEN 1 ELSE 0)

RECURSIVE sweepRow(_, _, _)
sweepRow(t, i, k) ==
  IF k = m THEN (t[i] \div (2 ^ m)) * (2 ^ m)
  ELSE newBit(t, i, k) * (2 ^ k) + sweepRow(t, i, k + 1)

sweep(t) == [i \in Rows |-> sweepRow(t, i, 0)]

(***************************************************************************)
(* Arduino helpers                                                         *)
(***************************************************************************)
\* C integer division truncates toward zero
truncDiv(p, q) ==
  IF (p >= 0) = (q > 0) THEN (IF p >= 0 THEN p ELSE 0 - p) \div (IF q > 0 THEN q ELSE 0 - q)
  ELSE 0 - ((IF p >= 0 THEN p ELSE 0 - p) \div (IF q > 0 THEN q ELSE 0 - q))

map(v, inMin, inMax, outMin, outMax) ==
  truncDiv((v - inMin) * (outMax - outMin), inMax - inMin) + outMin

\* constrain without its upper limit
constrainBelowOnly(v, lo, hi) == IF v < lo THEN lo ELSE v

constrain(v, lo, hi) == IF v < lo THEN lo ELSE IF v > hi THEN hi ELSE v

(***************************************************************************)
(* The display: LedControl mat, four 8x8 tiles.  A render is the sequence  *)
(* of calls it makes, mat.setRow(addr, row, value) and delay(ms), in order. *)
(***************************************************************************)
\* LedControl::setRow takes the value as a byte
setRow(addr, row, value) == [op |-> "setRow", addr |-> addr, row |-> row, value |-> value % 256]

delay(ms) == [op |-> "delay", addr |-> -1, row |-> -1, value |-> ms]

RECURSIVE Flatten(_)
Flatten(ss) == IF ss = <<>> THEN <<>> ELSE Head(ss) \o Flatten(Tail(ss))

\* p & q on unsigned values
RECURSIVE bitAnd(_, _)
bitAnd(p, q) ==
  IF p = 0 \/ q = 0 THEN 0 ELSE ((p % 2) * (q % 2)) + 2 * bitAnd(p \div 2, q \div 2)

\* the table with every mask one step behind: the first empty, the last
\* short of the four corners
ripOneShort ==
  [q \in 1 .. 15 |->
     [i \in Rows |->
        LET d == IF i < s THEN (s - 1) - i ELSE i - s
            w == IF (q - 1) - d < 0 THEN 0 ELSE IF (q - 1) - d > s THEN s ELSE (q - 1) - d
        IN [j \in Halves |-> IF j = 0 THEN (2 ^ w) - 1 ELSE (2 ^ s) - (2 ^ (s - w))]]]

\* unsigned int rip[15][n][x]: the 15 masks of the ripple, rip[q] of the source
\* being rip[q + 1] here
rip ==
  << MkGrid(<< <<0, 0>>, <<0, 0>>, <<0, 0>>, <<0, 0>>, <<0, 0>>, <<0, 0>>, <<0, 0>>, <<1, 128>>,
               <<1, 128>>, <<0, 0>>, <<0, 0>>, <<0, 0>>, <<0, 0>>, <<0, 0>>, <<0, 0>>, <<0, 0>> >>),
     MkGrid(<< <<0, 0>>, <<0, 0>>, <<0, 0>>, <<0, 0>>, <<0, 0>>, <<0, 0>>, <<1, 128>>, <<3, 192>>,
               <<3, 192>>, <<1, 128>>, <<0, 0>>, <<0, 0>>, <<0, 0>>, <<0, 0>>, <<0, 0>>, <<0, 0>> >>),
     MkGrid(<< <<0, 0>>, <<0, 0>>, <<0, 0>>, <<0, 0>>, <<0, 0>>, <<1, 128>>, <<3, 192>>, <<7, 224>>,
               <<7, 224>>, <<3, 192>>, <<1, 128>>, <<0, 0>>, <<0, 0>>, <<0, 0>>, <<0, 0>>, <<0, 0>> >>),
     MkGrid(<< <<0, 0>>, <<0, 0>>, <<0, 0>>, <<0, 0>>, <<1, 128>>, <<3, 192>>, <<7, 224>>, <<15, 240>>,
               <<15, 240>>, <<7, 224>>, <<3, 192>>, <<1, 128>>, <<0, 0>>, <<0, 0>>, <<0, 0>>, <<0, 0>> >>),
     MkGrid(<< <<0, 0>>, <<0, 0>>, <<0, 0>>, <<1, 128>>, <<3, 192>>, <<7, 224>>, <<15, 240>>, <<31, 248>>,
               <<31, 248>>, <<15, 240>>, <<7, 224>>, <<3, 192>>, <<1, 128>>, <<0, 0>>, <<0, 0>>, <<0, 0>> >>),
     MkGrid(<< <<0, 0>>, <<0, 0>>, <<1, 128>>, <<3, 192>>, <<7, 224>>, <<15, 240>>, <<31, 248>>, <<63, 252>>,
               <<63, 252>>, <<31, 248>>, <<15, 240>>, <<7, 224>>, <<3, 192>>, <<1, 128>>, <<0, 0>>, <<0, 0>> >>),
     MkGrid(<< <<0, 0>>, <<1, 128>>, <<3, 192>>, <<7, 224>>, <<15, 240>>, <<31, 248>>, <<63, 252>>, <<127, 254>>,
               <<127, 254>>, <<63, 252>>, <<31, 248>>, <<15, 240>>, <<7, 224>>, <<3, 192>>, <<1, 128>>, <<0, 0>> >>),
     MkGrid(<< <<1, 128>>, <<3, 192>>, <<7, 224>>, <<15, 240>>, <<31, 248>>, <<63, 252>>, <<127, 254>>, <<255, 255>>,
               <<255, 255>>, <<127, 254>>, <<63, 252>>, <<31, 248>>, <<15, 240>>, <<7, 224>>, <<3, 192>>, <<1, 128>> >>),
     MkGrid(<< <<3, 192>>, <<7, 224>>, <<15, 240>>, <<31, 248>>, <<63, 252>>, <<127, 254>>, <<255, 255>>, <<255, 255>>,
               <<255, 255>>, <<255, 255>>, <<127, 254>>, <<63, 252>>, <<31, 248>>, <<15, 240>>, <<7, 224>>, <<3, 192>> >>),
     MkGrid(<< <<7, 224>>, <<15, 240>>, <<31, 248>>, <<63, 252>>, <<127, 254>>, <<255, 255>>, <<255, 255>>, <<255, 255>>,
               <<255, 255>>, <<255, 255>>, <<255, 255>>, <<127, 254>>, <<63, 252>>, <<31, 248>>, <<15, 240>>, <<7, 224>> >>),
     MkGrid(<< <<15, 240>>, <<31, 248>>, <<63, 252>>, <<127, 254>>, <<255, 255>>, <<255, 255>>, <<255, 255>>, <<255, 255>>,
               <<255, 255>>, <<255, 255>>, <<255, 255>>, <<255, 255>>, <<127, 254>>, <<63, 252>>, <<31, 248>>, <<15, 240>> >>),
     MkGrid(<< <<31, 248>>, <<63, 252>>, <<127, 254>>, <<255, 255>>, <<255, 255>>, <<255, 255>>, <<255, 255>>, <<255, 255>>,
               <<255, 255>>, <<255, 255>>, <<255, 255>>, <<255, 255>>, <<255, 255>>, <<127, 254>>, <<63, 252>>, <<31, 248>> >>),
     MkGrid(<< <<63, 252>>, <<127, 254>>, <<255, 255>>, <<255, 255>>, <<255, 255>>, <<255, 255>>, <<255, 255>>, <<255, 255>>,
               <<255, 255>>, <<255, 255>>, <<255, 255>>, <<255, 255>>, <<255, 255>>, <<255, 255>>, <<127, 254>>, <<63, 252>> >>),
     MkGrid(<< <<127, 254>>, <<255, 255>>, <<255, 255>>, <<255, 255>>, <<255, 255>>, <<255, 255>>, <<255, 255>>, <<255, 255>>,
               <<255, 255>>, <<255, 255>>, <<255, 255>>, <<255, 255>>, <<255, 255>>, <<255, 255>>, <<255, 255>>, <<127, 254>> >>),
     MkGrid(<< <<255, 255>>, <<255, 255>>, <<255, 255>>, <<255, 255>>, <<255, 255>>, <<255, 255>>, <<255, 255>>, <<255, 255>>,
               <<255, 255>>, <<255, 255>>, <<255, 255>>, <<255, 255>>, <<255, 255>>, <<255, 255>>, <<255, 255>>, <<255, 255>> >>) >>

\* the loop body with the tiles of the two row halves exchanged
tileRowsExchanged(u, i) ==
  << setRow(2, i, u[i + 8][1]), setRow(3, i, u[i + 8][0]),
     setRow(0, i, u[i][1]), setRow(1, i, u[i][0]) >>

\* the four setRow calls of one pass of the loop over i
tileRows(u, i) ==
  << setRow(0, i, u[i + 8][1]), setRow(1, i, u[i + 8][0]),
     setRow(2, i, u[i][1]), setRow(3, i, u[i][0]) >>

updateDisplay(u) == Flatten([i1 \in 1 .. s |-> tileRows(u, i1 - 1)])

\* the scan with its two loops in the other order
updateDisplayScanBottomFirst(u, rate) ==
  LET z == map(rate, 42, 1000, 0, 50)
  IN Flatten([i1 \in 1 .. s |->
                << setRow(0, i1 - 1, u[(i1 - 1) + 8][1]), setRow(1, i1 - 1, u[(i1 - 1) + 8][0]),
                   delay(truncDiv(z, 2)) >>])
     \o Flatten([i1 \in 1 .. s |->
                << setRow(2, i1 - 1, u[i1 - 1][1]), setRow(3, i1 - 1, u[i1 - 1][0]),
                   delay(truncDiv(z, 2)) >>])

updateDisplayScan(u, rate) ==
  LET z == map(rate, 42, 1000, 0, 50)
  IN Flatten([i1 \in 1 .. s |->
                << setRow(2, i1 - 1, u[i1 - 1][1]), setRow(3, i1 - 1, u[i1 - 1][0]),
                   delay(truncDiv(z, 2)) >>])
     \o Flatten([i1 \in 1 .. s |->
                << setRow(0, i1 - 1, u[(i1 - 1) + 8][1]), setRow(1, i1 - 1, u[(i1 - 1) + 8][0]),
                   delay(truncDiv(z, 2)) >>])

\* the frames without the mask
ripMemUnmasked(u) == [q \in 1 .. 15 |-> u]

\* ripMem[q][i][j] = u[i][j] & rip[q][i][j]
ripMem(u) == [q \in 1 .. 15 |-> [i \in Rows |-> [j \in Halves |-> bitAnd(u[i][j], rip[q][i][j])]]]

updateDisplayRipple(u, rate) ==
  LET z == map(rate, 42, 1000, 0, 20)
  IN Flatten([q \in 1 .. 15 |-> updateDisplay(ripMem(u)[q]) \o << delay(z) >>])

\* the calls of rippleTest(): the 15 masks themselves, delay(50) after each
rippleTestCalls == Flatten([q \in 1 .. 15 |-> updateDisplay(rip[q]) \o << delay(50) >>])

(***************************************************************************)
(* Inputs of the model                                                     *)
(***************************************************************************)
\* a 2x2 block (still life) and a horizontal blinker straddling the two halves
BlockGrid == [ZeroGrid EXCEPT ![4] = [j \in Halves |-> IF j = 0 THEN 24 ELSE 0],
                              ![5] = [j \in Halves |-> IF j = 0 THEN 24 ELSE 0]]

BlinkerGrid == [ZeroGrid EXCEPT ![9] = [j \in Halves |-> IF j = 0 THEN 1 ELSE 192]]

\* the pulsar, an oscillator of period 3
PulsarGrid ==
  MkGrid(<< <<0, 0>>, <<28, 112>>, <<0, 0>>, <<66, 132>>, <<66, 132>>, <<66, 132>>, <<28, 112>>,
            <<0, 0>>, <<28, 112>>, <<66, 132>>, <<66, 132>>, <<66, 132>>, <<0, 0>>, <<28, 112>>,
            <<0, 0>>, <<0, 0>> >>)

\* grids generateData() is let to draw (each half row is random(256))
RandomGrids == {BlockGrid, BlinkerGrid}

\* SpecDetect: grids generateData() is let to draw, of periods 1, 2 and 3
DetectGrids == {BlockGrid, BlinkerGrid, PulsarGrid}

\* analog readings delivered to readPot() in the main loop
PotReadings == {10}

\* rotate a packed row right by k bits: the cells move k columns to the right
RotR(v, k) == (v \div (2 ^ k)) + (v % (2 ^ k)) * (2 ^ (m - k))

\* the grid u moved dr rows down and dc columns right on the torus
ShiftGrid(u, dr, dc) ==
  LET from(i) == (i + n - (dr % n)) % n
      word(i) == RotR((u[from(i)][0] * (2 ^ s)) + u[from(i)][1], dc % m)
  IN [i \in Rows |-> [j \in Halves |-> IF j = 0 THEN word(i) \div (2 ^ s)
                                                   ELSE word(i) % (2 ^ s)]]

\* p1 flipped top to bottom: the glider heading down and right
FlipGrid(u) == [i \in Rows |-> u[(n - 1) - i]]

GliderUR == P1Init
GliderDR == FlipGrid(P1Init)

\* a glider keeps to one diagonal of the torus, so the 16 starts in row 0 of
\* each heading pass through every placement on the grid within 64 steps
GlidersUR == {ShiftGrid(GliderUR, 0, k) : k \in Cols}
GlidersDR == {ShiftGrid(GliderDR, 0, k) : k \in Cols}

FullGrid == [i \in Rows |-> [j \in Halves |-> 255]]

\* input grids of the life step
LifeInputs ==
  GlidersUR \cup GlidersDR \cup {ZeroGrid, FullGrid, P2Init, P3Init, BlockGrid, BlinkerGrid}

VARIABLES
  pc,               \* position of the main program (setup, then loop)
  ret,              \* which call of patterns() the main program is inside
  sel,              \* the branch of patterns() the main program has taken
  c,                \* readButt(): int c = counter % 3
  a, aTemp, aTemp2, mem,
  p1, p2, p3, p4, p5, p6,
  r1, r2, r3, r4, r64,
  patternSel, counter, g, periodic,
  now,              \* millis()
  current, previous, timeoutCurrent, timeoutPrevious,
  potVal, refreshRate, brightness,
  encN,             \* encoder detents delivered so far
  pressN,           \* button presses seen so far
  mat               \* the calls the last render made to the display

grids == <<a, aTemp, aTemp2, mem>>
fixedSlots == <<p1, p2, p3>>
saveSlots == <<p4, p5, p6>>
ring == <<r1, r2, r3, r4, r64>>
timers == <<now, current, previous, timeoutCurrent, timeoutPrevious>>
pot == <<potVal, refreshRate, brightness>>
ctl == <<pc, ret, sel, c>>
vars == <<ctl, grids, fixedSlots, saveSlots, ring, patternSel, counter, g, periodic,
          timers, pot, encN, pressN, mat>>

\* the globals as the program's initialisers leave them
Globals ==
  /\ a = ZeroGrid /\ aTemp = ZeroRows /\ aTemp2 = ZeroRows /\ mem = ZeroGrid
  /\ p1 = P1Init /\ p2 = P2Init /\ p3 = P3Init
  /\ p4 = ZeroGrid /\ p5 = ZeroGrid /\ p6 = ZeroGrid
  /\ r1 = ZeroRows /\ r2 = ZeroRows /\ r3 = ZeroRows /\ r4 = ZeroRows /\ r64 = ZeroRows
  /\ patternSel = 1 /\ counter = 0 /\ g = 0 /\ periodic = FALSE
  /\ current = 0 /\ previous = 0 /\ timeoutCurrent = 0 /\ timeoutPrevious = 0
  /\ potVal = 0 /\ refreshRate = 100 /\ brightness = 0
  /\ now = 0 /\ encN = 0 /\ pressN = 0 /\ ret = "none" /\ sel = 0 /\ c = 0
  /\ mat = << >>

Init == Globals /\ pc = "setup"

(***************************************************************************)
(* rules() as one call: pack, sweep, unpack, g++                           *)
(***************************************************************************)
rulesGrid(u) == Unpack(sweep(Pack(u)))

\* SpecLife: the life step applied again and again to one input grid; mem
\* keeps the input, as generateData() leaves it
InitLife ==
  /\ pc = "life" /\ ret = "none" /\ sel = 0 /\ c = 0
  /\ \E u \in LifeInputs : a = u /\ mem = u
  /\ aTemp = ZeroRows /\ aTemp2 = ZeroRows
  /\ p1 = P1Init /\ p2 = P2Init /\ p3 = P3Init
  /\ p4 = ZeroGrid /\ p5 = ZeroGrid /\ p6 = ZeroGrid
  /\ r1 = ZeroRows /\ r2 = ZeroRows /\ r3 = ZeroRows /\ r4 = ZeroRows /\ r64 = ZeroRows
  /\ patternSel = 1 /\ counter = 0 /\ g = 0 /\ periodic = FALSE
  /\ current = 0 /\ previous = 0 /\ timeoutCurrent = 0 /\ timeoutPrevious = 0
  /\ potVal = 0 /\ refreshRate = 100 /\ brightness = 0
  /\ now = 0 /\ encN = 0 /\ pressN = 0
  /\ mat = << >>

LifeStep ==
  /\ pc = "life"
  /\ g < MaxLifeGen
  /\ aTemp' = Pack(a)
  /\ aTemp2' = sweep(aTemp')
  /\ a' = Unpack(aTemp2')
  /\ mat' = updateDisplayScan(a', refreshRate)
  /\ g' = g + 1
  /\ UNCHANGED <<ctl, mem, fixedSlots, saveSlots, ring, patternSel, counter, periodic,
                 timers, pot, encN, pressN>>

NextLife == LifeStep

SpecLife == InitLife /\ [][NextLife]_vars

(***************************************************************************)
(* patterns(): load the grid of the selected page                          *)
(***************************************************************************)
Slot(k) ==
  CASE k = 1 -> p1 [] k = 2 -> p2 [] k = 3 -> p3
    [] k = 4 -> p4 [] k = 5 -> p5 [] k = 6 -> p6

\* patterns() taking the branch of page 0 whatever the page
PatternsEffectAlwaysRandom(k, rnd) ==
  /\ periodic' = FALSE
  /\ \E u \in rnd : a' = u /\ mem' = u
  /\ mat' = updateDisplay(a')
  /\ previous' = current

\* patterns() with a branch for the pages above 6, each loading the slot
\* three pages below it
PatternsEffectNoneInert(k, rnd) ==
  IF k = 0 THEN
    /\ periodic' = FALSE
    /\ \E u \in rnd : a' = u /\ mem' = u
    /\ mat' = updateDisplay(a')
    /\ previous' = current
  ELSE IF k \in {1, 2} THEN
    /\ a' = Slot(k)
    /\ mat' = updateDisplay(a')
    /\ previous' = current
    /\ UNCHANGED <<mem, periodic>>
  ELSE IF k \in 3 .. 6 THEN
    /\ a' = Slot(k)
    /\ mat' = updateDisplay(a')
    /\ periodic' = FALSE
    /\ previous' = current
    /\ UNCHANGED mem
  ELSE
    /\ a' = Slot(k - 3)
    /\ mat' = updateDisplay(a')
    /\ previous' = current
    /\ UNCHANGED <<mem, periodic>>

\* the branch of patterns() taken for page k, generateData() drawing from rnd
PatternsEffectOn(k, rnd) ==
  IF k = 0 THEN
    /\ periodic' = FALSE
    /\ \E u \in rnd : a' = u /\ mem' = u      \* generateData()
    /\ mat' = updateDisplay(a')
    /\ previous' = current
  ELSE IF k \in {1, 2} THEN
    /\ a' = Slot(k)
    /\ mat' = updateDisplay(a')
    /\ previous' = current
    /\ UNCHANGED <<mem, periodic>>
  ELSE IF k \in 3 .. 6 THEN
    /\ a' = Slot(k)
    /\ mat' = updateDisplay(a')
    /\ periodic' = FALSE
    /\ previous' = current
    /\ UNCHANGED mem
  ELSE UNCHANGED <<a, mem, periodic, previous, mat>>

PatternsEffect(k) == PatternsEffectOn(k, RandomGrids)

(***************************************************************************)
(* pattern(): the encoder interrupt handler.  It runs to completion        *)
(* between any two steps of the main program once setup() has attached it. *)
(***************************************************************************)
\* the handler that calls patterns() only when the page has changed
PatternOnSkipsClamped(dir, maxEnc, rnd) ==
  /\ pc \notin {"setup", "life"}
  /\ encN < maxEnc
  /\ encN' = encN + 1
  /\ patternSel' = constrain(patternSel + dir, 0, lim)
  /\ IF patternSel' = patternSel
       THEN UNCHANGED <<a, mem, periodic, previous, mat>>
       ELSE PatternsEffectOn(patternSel', rnd)
  /\ UNCHANGED <<ctl, aTemp, aTemp2, fixedSlots, saveSlots, ring, counter, g,
                 now, current, timeoutCurrent, timeoutPrevious, pot, pressN>>

PatternOn(dir, maxEnc, rnd) ==
  /\ pc \notin {"setup", "life"}
  /\ encN < maxEnc
  /\ encN' = encN + 1
  /\ patternSel' = constrain(patternSel + dir, 0, lim)
  /\ PatternsEffectOn(patternSel', rnd)
  /\ UNCHANGED <<ctl, aTemp, aTemp2, fixedSlots, saveSlots, ring, counter, g,
                 now, current, timeoutCurrent, timeoutPrevious, pot, pressN>>

Pattern(dir, maxEnc) == PatternOn(dir, maxEnc, RandomGrids)

PatternCW == Pattern(1, MaxEnc)
PatternCCW == Pattern(-1, MaxEnc)

(***************************************************************************)
(* setup()                                                                 *)
(***************************************************************************)
\* display initialisation, attachInterrupt, butt1.begin, randomSeed
SetupBegin ==
  /\ pc = "setup"
  /\ pc' = "rippleTest"
  /\ UNCHANGED <<ret, sel, c, grids, fixedSlots, saveSlots, ring, patternSel, counter, g,
                 periodic, timers, pot, encN, mat, pressN>>

\* rippleTest(): 15 frames, delay(50) after each
RippleTest ==
  /\ pc = "rippleTest"
  /\ mat' = rippleTestCalls
  /\ now' = now + (15 * 50)
  /\ pc' = "setup_copy"
  /\ UNCHANGED <<ret, sel, c, grids, fixedSlots, saveSlots, ring, patternSel, counter, g,
                 periodic, current, previous, timeoutCurrent, timeoutPrevious, pot, encN, pressN>>

\* memcpy(a, p1); updateDisplay(a); previous = millis(); timeoutPrevious = millis()
SetupFinish ==
  /\ pc = "setup_copy"
  /\ a' = p1
  /\ mat' = updateDisplay(a')
  /\ previous' = now
  /\ timeoutPrevious' = now
  /\ pc' = "loop"
  /\ UNCHANGED <<ret, sel, c, aTemp, aTemp2, mem, fixedSlots, saveSlots, ring, patternSel,
                 counter, g, periodic, now, current, timeoutCurrent, pot, encN, pressN>>

(***************************************************************************)
(* loop(): readPot, readButt                                               *)
(***************************************************************************)
\* readPot() without its call of constrain
ReadPotUnconstrained(v, held) ==
  /\ pc = "loop"
  /\ potVal' = v
  /\ refreshRate' = map(v, 970, 10, minSpeed, maxSpeed)
  /\ brightness' = IF held THEN map(v, 0, 970, 0, 15) ELSE brightness
  /\ pc' = "readButt"
  /\ UNCHANGED <<ret, sel, c, grids, fixedSlots, saveSlots, ring, patternSel, counter, g,
                 periodic, timers, encN, mat, pressN>>

\* readPot() leaving the tick period alone while the button is held
ReadPotEitherOr(v, held) ==
  /\ pc = "loop"
  /\ potVal' = v
  /\ refreshRate' = IF held THEN refreshRate
                    ELSE constrain(map(v, 970, 10, minSpeed, maxSpeed), 42, 2500)
  /\ brightness' = IF held THEN map(v, 0, 970, 0, 15) ELSE brightness
  /\ pc' = "readButt"
  /\ UNCHANGED <<ret, sel, c, grids, fixedSlots, saveSlots, ring, patternSel, counter, g,
                 periodic, timers, encN, mat, pressN>>

\* readPot() reading v, with butt1.pressedFor(buttonLongPress) = held
ReadPotWith(v, held) ==
  /\ pc = "loop"
  /\ potVal' = v
  /\ refreshRate' = constrain(map(v, 970, 10, minSpeed, maxSpeed), 42, 2500)
  /\ brightness' = IF held THEN map(v, 0, 970, 0, 15) ELSE brightness
  /\ pc' = "readButt"
  /\ UNCHANGED <<ret, sel, c, grids, fixedSlots, saveSlots, ring, patternSel, counter, g,
                 periodic, timers, encN, mat, pressN>>

ReadPot == \E v \in PotReadings, held \in BOOLEAN : ReadPotWith(v, held)

\* butt1.wasPressed() is false
ButtIdle ==
  /\ pc = "readButt"
  /\ pc' = "millis"
  /\ UNCHANGED <<ret, sel, c, grids, fixedSlots, saveSlots, ring, patternSel, counter, g,
                 periodic, timers, pot, encN, mat, pressN>>

\* the save whose branch for p5 does not advance the cursor
ReadButtSaveStuck(maxPress) ==
  /\ pc = "readButt"
  /\ pressN < maxPress
  /\ pressN' = pressN + 1
  /\ patternSel = 0
  /\ c' = counter % 3
  /\ p4' = IF c' = 0 THEN mem ELSE p4
  /\ p5' = IF c' = 1 THEN mem ELSE p5
  /\ p6' = IF c' = 2 THEN mem ELSE p6
  /\ counter' = IF c' = 1 THEN counter ELSE counter + 1
  /\ patternSel' = 4 + c'
  /\ pc' = "patterns"
  /\ ret' = "save"
  /\ UNCHANGED <<sel, grids, fixedSlots, ring, g, periodic, timers, pot, encN, mat>>

\* pressed on page 0: save mem into p4, p5 or p6, then call patterns()
ReadButtSave(maxPress) ==
  /\ pc = "readButt"
  /\ pressN < maxPress
  /\ pressN' = pressN + 1
  /\ patternSel = 0
  /\ c' = counter % 3
  /\ p4' = IF c' = 0 THEN mem ELSE p4
  /\ p5' = IF c' = 1 THEN mem ELSE p5
  /\ p6' = IF c' = 2 THEN mem ELSE p6
  /\ counter' = counter + 1
  /\ patternSel' = 4 + c'
  /\ pc' = "patterns"
  /\ ret' = "save"
  /\ UNCHANGED <<sel, grids, fixedSlots, ring, g, periodic, timers, pot, encN, mat>>

\* pressed on any other page: go to page 0, then call patterns()
ReadButtZero(maxPress) ==
  /\ pc = "readButt"
  /\ pressN < maxPress
  /\ pressN' = pressN + 1
  /\ patternSel # 0
  /\ patternSel' = 0
  /\ pc' = "patterns"
  /\ ret' = "zero"
  /\ UNCHANGED <<sel, c, grids, fixedSlots, saveSlots, ring, counter, g, periodic,
                 timers, pot, encN, mat>>

ButtSave == ReadButtSave(MaxPress)
ButtZero == ReadButtZero(MaxPress)

(***************************************************************************)
(* patterns() called by the main program: the test of patternSel, then the *)
(* body of the branch, then the return to the caller                       *)
(***************************************************************************)
PatternsResolve ==
  /\ pc = "patterns"
  /\ sel' = patternSel
  /\ pc' = "patterns_body"
  /\ UNCHANGED <<ret, c, grids, fixedSlots, saveSlots, ring, patternSel, counter, g,
                 periodic, timers, pot, encN, mat, pressN>>

PatternsBodyOn(rnd) ==
  /\ pc = "patterns_body"
  /\ PatternsEffectOn(sel, rnd)
  /\ pc' = "patterns_ret"
  /\ UNCHANGED <<ret, sel, c, aTemp, aTemp2, fixedSlots, saveSlots, ring, patternSel,
                 counter, g, now, current, timeoutCurrent, timeoutPrevious, pot, encN, pressN>>

PatternsBody == PatternsBodyOn(RandomGrids)

PatternsReturn ==
  /\ pc = "patterns_ret"
  /\ pc' = IF ret \in {"save", "zero"} THEN "millis" ELSE "delay"
  /\ ret' = "none"
  /\ UNCHANGED <<sel, c, grids, fixedSlots, saveSlots, ring, patternSel, counter, g,
                 periodic, timers, pot, encN, mat, pressN>>

(***************************************************************************)
(* loop(): the tick                                                        *)
(***************************************************************************)
\* current = millis(); the tick is not due
MillisIdle ==
  /\ pc = "millis"
  /\ current' = now
  /\ ~(now - previous >= refreshRate)
  /\ pc' = "delay"
  /\ UNCHANGED <<ret, sel, c, grids, fixedSlots, saveSlots, ring, patternSel, counter, g,
                 periodic, now, previous, timeoutCurrent, timeoutPrevious, pot, encN, mat, pressN>>

\* current = millis(); current - previous >= refreshRate
Tick(maxGen) ==
  /\ pc = "millis"
  /\ current' = now
  /\ now - previous >= refreshRate
  /\ g < maxGen
  /\ pc' = "rules"
  /\ UNCHANGED <<ret, sel, c, grids, fixedSlots, saveSlots, ring, patternSel, counter, g,
                 periodic, now, previous, timeoutCurrent, timeoutPrevious, pot, encN, mat, pressN>>

MillisDue == Tick(MaxGen)

\* rules(): pack a into aTemp and aTemp2, sweep
RulesSweep ==
  /\ pc = "rules"
  /\ aTemp' = Pack(a)
  /\ aTemp2' = sweep(aTemp')
  /\ pc' = "rules_write"
  /\ UNCHANGED <<ret, sel, c, a, mem, fixedSlots, saveSlots, ring, patternSel, counter, g,
                 periodic, timers, pot, encN, mat, pressN>>

\* the unpacking that writes through to p1 on page 1, as if the active grid
\* were the slot itself
RulesWriteAliased ==
  /\ pc = "rules_write"
  /\ a' = Unpack(aTemp2)
  /\ p1' = IF patternSel = 1 THEN a' ELSE p1
  /\ pc' = "rules_scan"
  /\ UNCHANGED <<ret, sel, c, aTemp, aTemp2, mem, p2, p3, saveSlots, ring, patternSel,
                 counter, g, periodic, timers, pot, encN, mat, pressN>>

\* rules(): unpack aTemp2 into a
RulesWrite ==
  /\ pc = "rules_write"
  /\ a' = Unpack(aTemp2)
  /\ pc' = "rules_scan"
  /\ UNCHANGED <<ret, sel, c, aTemp, aTemp2, mem, fixedSlots, saveSlots, ring, patternSel,
                 counter, g, periodic, timers, pot, encN, mat, pressN>>

\* updateDisplayScan(): 2 * s rows, delay(z / 2) after each
scanTime(rate) == (2 * s) * truncDiv(map(rate, 42, 1000, 0, 50), 2)

\* rules(): updateDisplayScan(a); g++
RulesScan ==
  /\ pc = "rules_scan"
  /\ mat' = updateDisplayScan(a, refreshRate)
  /\ now' = now + scanTime(refreshRate)
  /\ g' = g + 1
  /\ pc' = "rules_ret"
  /\ UNCHANGED <<ret, sel, c, grids, fixedSlots, saveSlots, ring, patternSel, counter,
                 periodic, current, previous, timeoutCurrent, timeoutPrevious, pot, encN, pressN>>

\* timeoutCurrent - timeoutPrevious > periodicTimeout
timedOutLate(tc, tp) == tc - tp > periodicTimeout

\* timeoutCurrent - timeoutPrevious >= periodicTimeout
timedOut(tc, tp) == tc - tp >= periodicTimeout

\* the tick feeding the detector whether the settled flag is set or not
AfterRulesAlwaysFeeds ==
  /\ pc = "rules_ret"
  /\ previous' = current
  /\ timeoutCurrent' = now
  /\ pc' = "checkPeriodic" /\ ret' = ret
  /\ UNCHANGED <<sel, c, grids, fixedSlots, saveSlots, ring, patternSel, counter, g,
                 periodic, now, current, timeoutPrevious, pot, encN, mat, pressN>>

\* previous = current; timeoutCurrent = millis(); the test of periodic
AfterRules ==
  /\ pc = "rules_ret"
  /\ previous' = current
  /\ timeoutCurrent' = now
  /\ IF periodic = FALSE THEN pc' = "checkPeriodic" /\ ret' = ret
     ELSE IF timedOut(timeoutCurrent', timeoutPrevious)
            THEN pc' = "patterns" /\ ret' = "timeout"
            ELSE pc' = "delay" /\ ret' = ret
  /\ UNCHANGED <<sel, c, grids, fixedSlots, saveSlots, ring, patternSel, counter, g,
                 periodic, now, current, timeoutPrevious, pot, encN, mat, pressN>>

\* the comparison that leaves out the oldest grid of the ring
ringMatchTwoBack(t1, t2, t3, t4) == (t1 = t2) \/ (t1 = t3)

\* check1 == 0 || check2 == 0 || check3 == 0
ringMatch(t1, t2, t3, t4) == (t1 = t2) \/ (t1 = t3) \/ (t1 = t4)

\* g % 64 == 0 and check64 == 0
check64(gen, t1, t64) == (gen % 64 = 0) /\ (t1 = t64)

\* the checkpoint never overwritten
checkpointKept(gen, t1, t64) == t64

\* the checkpoint overwritten at every generation
checkpointEvery(gen, t1, t64) == t1

\* if (g % 64 == 0) memcpy(r64, r1, sizeof(r1))
checkpoint(gen, t1, t64) == IF gen % 64 = 0 THEN t1 ELSE t64

CheckPeriodic ==
  /\ pc = "checkPeriodic"
  /\ r4' = r3
  /\ r3' = r2
  /\ r2' = r1
  /\ r1' = Pack(a)
  /\ LET found == check64(g, r1', r64) \/ ringMatch(r1', r2', r3', r4')
     IN /\ r64' = checkpoint(g, r1', r64)
        /\ periodic' = IF found THEN TRUE ELSE periodic
        /\ timeoutPrevious' = IF found THEN timeoutCurrent ELSE timeoutPrevious
  /\ pc' = "delay"
  /\ UNCHANGED <<ret, sel, c, grids, fixedSlots, saveSlots, patternSel, counter, g,
                 now, current, previous, timeoutCurrent, pot, encN, mat, pressN>>

\* delay(1), and the iterations of loop() that follow it for as long as no
\* tick is due, the button is not pressed and no encoder edge arrives: they
\* change nothing but current
Delay ==
  /\ pc = "delay"
  /\ IF now + 1 >= previous + refreshRate
       THEN now' = now + 1 /\ current' = current
       ELSE now' = previous + refreshRate /\ current' = now' - 1
  /\ pc' = "loop"
  /\ UNCHANGED <<ret, sel, c, grids, fixedSlots, saveSlots, ring, patternSel, counter, g,
                 periodic, previous, timeoutCurrent, timeoutPrevious, pot, encN, mat, pressN>>

Next ==
  \/ PatternCW \/ PatternCCW
  \/ SetupBegin \/ RippleTest \/ SetupFinish
  \/ ReadPot \/ ButtIdle \/ ButtSave \/ ButtZero
  \/ PatternsResolve \/ PatternsBody \/ PatternsReturn
  \/ MillisIdle \/ MillisDue
  \/ RulesSweep \/ RulesWrite \/ RulesScan \/ AfterRules \/ CheckPeriodic
  \/ Delay

Spec == Init /\ [][Next]_vars

(***************************************************************************)
(* SpecPage: the page selector walked over its whole range.  The program   *)
(* with no tick ever due: encoder detents and button presses only.         *)
(***************************************************************************)
PageCW == Pattern(1, MaxEncPage)
PageCCW == Pattern(-1, MaxEncPage)
PageButtZero == ReadButtZero(MaxPressPage)

NextPage ==
  \/ PageCW \/ PageCCW
  \/ SetupBegin \/ RippleTest \/ SetupFinish
  \/ ReadPot \/ ButtIdle \/ PageButtZero
  \/ PatternsResolve \/ PatternsBody \/ PatternsReturn
  \/ MillisIdle \/ Delay

SpecPage == Init /\ [][NextPage]_vars

(***************************************************************************)
(* SpecSave: the save cursor taken once round the three writable slots.    *)
(* The program with no tick ever due and few encoder detents.              *)
(***************************************************************************)
ButtSaveRR == ReadButtSave(MaxPressRR)
ButtZeroRR == ReadButtZero(MaxPressRR)

NextSave ==
  \/ PatternCW \/ PatternCCW
  \/ SetupBegin \/ RippleTest \/ SetupFinish
  \/ ReadPot \/ ButtIdle \/ ButtSaveRR \/ ButtZeroRR
  \/ PatternsResolve \/ PatternsBody \/ PatternsReturn
  \/ MillisIdle \/ Delay

SpecSave == Init /\ [][NextSave]_vars

(***************************************************************************)
(* SpecDetect: the periodicity detector and the settlement timeout.  The   *)
(* program with more ticks and no encoder detent, generateData() drawing   *)
(* oscillators of periods 1, 2 and 3.                                      *)
(***************************************************************************)
DetectButtSave == ReadButtSave(MaxPressDetect)
DetectButtZero == ReadButtZero(MaxPressDetect)
DetectPatternsBody == PatternsBodyOn(DetectGrids)
DetectTick == Tick(MaxGenDetect)

NextDetect ==
  \/ SetupBegin \/ RippleTest \/ SetupFinish
  \/ ReadPot \/ ButtIdle \/ DetectButtSave \/ DetectButtZero
  \/ PatternsResolve \/ DetectPatternsBody \/ PatternsReturn
  \/ MillisIdle \/ DetectTick
  \/ RulesSweep \/ RulesWrite \/ RulesScan \/ AfterRules \/ CheckPeriodic
  \/ Delay

SpecDetect == Init /\ [][NextDetect]_vars

(***************************************************************************)
(* SpecGlider: the program left alone after boot, the glider of page 1     *)
(* running with no button press and no encoder detent.                     *)
(***************************************************************************)
GliderTick == Tick(MaxGenGlider)

NextGlider ==
  \/ SetupBegin \/ RippleTest \/ SetupFinish
  \/ ReadPot \/ ButtIdle
  \/ PatternsResolve \/ PatternsBody \/ PatternsReturn
  \/ MillisIdle \/ GliderTick
  \/ RulesSweep \/ RulesWrite \/ RulesScan \/ AfterRules \/ CheckPeriodic
  \/ Delay

SpecGlider == Init /\ [][NextGlider]_vars

(***************************************************************************)
(* SpecTurn: the encoder turned while the simulation runs: detents in both *)
(* directions and ticks, with no button press.                             *)
(***************************************************************************)
TurnCW == Pattern(1, MaxEncTurn)
TurnCCW == Pattern(-1, MaxEncTurn)
TurnTick == Tick(MaxGenTurn)

NextTurn ==
  \/ TurnCW \/ TurnCCW
  \/ SetupBegin \/ RippleTest \/ SetupFinish
  \/ ReadPot \/ ButtIdle
  \/ MillisIdle \/ TurnTick
  \/ RulesSweep \/ RulesWrite \/ RulesScan \/ AfterRules \/ CheckPeriodic
  \/ Delay

SpecTurn == Init /\ [][NextTurn]_vars

(***************************************************************************)
(* SpecRender: the three renders applied to one input grid, one after the  *)
(* other in any order; pc names the render applied last.                   *)
(***************************************************************************)
\* the grid whose only live cell is (r, k)
SingleCell(r, k) ==
  [i \in Rows |-> [j \in Halves |->
     IF i = r /\ j = k \div s THEN 2 ^ ((s - 1) - (k % s)) ELSE 0]]

RenderInputs ==
  {SingleCell(r, k) : r \in Rows, k \in Cols} \cup {ZeroGrid, FullGrid, P1Init, P2Init, P3Init}

\* values refreshRate has: its initialiser and the two ends of its range
RenderRates == {100, minSpeed, maxSpeed}

InitRender ==
  /\ pc = "render" /\ ret = "none" /\ sel = 0 /\ c = 0
  /\ \E u \in RenderInputs : a = u /\ mem = u
  /\ aTemp = ZeroRows /\ aTemp2 = ZeroRows
  /\ p1 = P1Init /\ p2 = P2Init /\ p3 = P3Init
  /\ p4 = ZeroGrid /\ p5 = ZeroGrid /\ p6 = ZeroGrid
  /\ r1 = ZeroRows /\ r2 = ZeroRows /\ r3 = ZeroRows /\ r4 = ZeroRows /\ r64 = ZeroRows
  /\ patternSel = 1 /\ counter = 0 /\ g = 0 /\ periodic = FALSE
  /\ current = 0 /\ previous = 0 /\ timeoutCurrent = 0 /\ timeoutPrevious = 0
  /\ potVal = 0 /\ refreshRate \in RenderRates /\ brightness = 0
  /\ now = 0 /\ encN = 0 /\ pressN = 0
  /\ mat = << >>

RenderPcs == {"render", "instant", "scan", "ripple"}

RenderInstant ==
  /\ pc \in RenderPcs
  /\ mat' = updateDisplay(a)
  /\ pc' = "instant"
  /\ UNCHANGED <<ret, sel, c, grids, fixedSlots, saveSlots, ring, patternSel, counter, g,
                 periodic, timers, pot, encN, pressN>>

RenderScan ==
  /\ pc \in RenderPcs
  /\ mat' = updateDisplayScan(a, refreshRate)
  /\ pc' = "scan"
  /\ UNCHANGED <<ret, sel, c, grids, fixedSlots, saveSlots, ring, patternSel, counter, g,
                 periodic, timers, pot, encN, pressN>>

\* the ripple storing its first masked frame into the grid it was given
RenderRippleInPlace ==
  /\ pc \in RenderPcs
  /\ mat' = updateDisplayRipple(a, refreshRate)
  /\ a' = ripMem(a)[1]
  /\ pc' = "ripple"
  /\ UNCHANGED <<ret, sel, c, aTemp, aTemp2, mem, fixedSlots, saveSlots, ring, patternSel,
                 counter, g, periodic, timers, pot, encN, pressN>>

RenderRipple ==
  /\ pc \in RenderPcs
  /\ mat' = updateDisplayRipple(a, refreshRate)
  /\ pc' = "ripple"
  /\ UNCHANGED <<ret, sel, c, grids, fixedSlots, saveSlots, ring, patternSel, counter, g,
                 periodic, timers, pot, encN, pressN>>

NextRender == RenderInstant \/ RenderScan \/ RenderRipple

SpecRender == InitRender /\ [][NextRender]_vars

(***************************************************************************)
(* SpecReveal: the ripple reveal applied to one input grid and, beside it, *)
(* the boot sequence of setup() with its own 15 frames.                    *)
(***************************************************************************)
InitReveal == InitRender \/ Init

NextReveal == RenderRipple \/ SetupBegin \/ RippleTest \/ SetupFinish

SpecReveal == InitReveal /\ [][NextReveal]_vars

(***************************************************************************)
(* SpecPot: readPot() applied to every reading of the potentiometer, the   *)
(* button held or not.  potVal starts as the reading about to be taken.    *)
(***************************************************************************)
InitPot ==
  /\ pc = "loop" /\ ret = "none" /\ sel = 0 /\ c = 0
  /\ a = P1Init /\ mem = ZeroGrid
  /\ aTemp = ZeroRows /\ aTemp2 = ZeroRows
  /\ p1 = P1Init /\ p2 = P2Init /\ p3 = P3Init
  /\ p4 = ZeroGrid /\ p5 = ZeroGrid /\ p6 = ZeroGrid
  /\ r1 = ZeroRows /\ r2 = ZeroRows /\ r3 = ZeroRows /\ r4 = ZeroRows /\ r64 = ZeroRows
  /\ patternSel = 1 /\ counter = 0 /\ g = 0 /\ periodic = FALSE
  /\ now = 15 * 50 /\ current = 0 /\ previous = now
  /\ timeoutCurrent = 0 /\ timeoutPrevious = now
  /\ potVal \in 0 .. MaxReading /\ refreshRate = 100 /\ brightness = 0
  /\ encN = 0 /\ pressN = 0
  /\ mat = updateDisplay(a)

PotStep == \E held \in BOOLEAN : ReadPotWith(potVal, held)

NextPot == PotStep

SpecPot == InitPot /\ [][NextPot]_vars

(***************************************************************************)
(* The life rule stated on cells                                           *)
(***************************************************************************)
\* cell (r, k) of grid u: column 0 is the most significant bit of the left byte
Cell(u, r, k) ==
  IF k < s THEN bitRead(u[r][0], (s - 1) - k) ELSE bitRead(u[r][1], (m - 1) - k)

NeighbourOffsets == ((-1 .. 1) \X (-1 .. 1)) \ {<<0, 0>>}

LiveNeighbours(u, r, k) ==
  Cardinality({d \in NeighbourOffsets : Cell(u, (r + d[1]) % n, (k + d[2]) % m) = 1})

LiveNext(u, r, k) ==
  \/ Cell(u, r, k) = 1 /\ LiveNeighbours(u, r, k) \in {2, 3}
  \/ Cell(u, r, k) = 0 /\ LiveNeighbours(u, r, k) = 3

IsGrid(u) == \A i \in Rows, j \in Halves : u[i][j] \in 0 .. 255

\* C1: one life step turns the active grid G into the grid in which cell
\* (r, k) is live exactly when it was live in G with 2 or 3 live neighbours or
\* dead in G with exactly 3, the 8 neighbours being taken modulo the grid side
\* in both axes and all of them counted in G as it was before the step.
C1_LifeRule ==
  [][g' = g + 1 =>
       /\ IsGrid(a')
       /\ \A r \in Rows, k \in Cols : (Cell(a', r, k) = 1) <=> LiveNext(a, r, k)]_vars

\* a step has turned a glider lying across the left and right edges of the
\* grid into its next phase
C1_Witness ==
  /\ pc = "life" /\ g = 1
  /\ mem = ShiftGrid(GliderUR, 0, 13)
  /\ a # mem /\ a # ZeroGrid

\* C2: the life step maps the all-dead grid to the all-dead grid, so every
\* generation that follows an all-dead grid is all-dead.
C2_DeadStaysDead ==
  [][(g' = g + 1 /\ a = ZeroGrid) => a' = ZeroGrid]_vars

C2_Witness == pc = "life" /\ mem = ZeroGrid /\ g >= 2 /\ a = ZeroGrid

\* C3: every 4 life steps move a glider one row and one column along its
\* heading with wraparound (the glider heading down and right by (1,1), the
\* glider of p1 one row up and one column right), wherever it lies on the
\* torus, so after 64 steps on the 16x16 grid it is back where it started.
C3_GliderTranslates ==
  (pc = "life" /\ g % 4 = 0) =>
     /\ mem \in GlidersDR => a = ShiftGrid(mem, g \div 4, g \div 4)
     /\ mem \in GlidersUR => a = ShiftGrid(mem, 0 - (g \div 4), g \div 4)
     /\ (g = 64 /\ mem \in GlidersDR \cup GlidersUR) => a = mem

\* a glider that started across the left and right edges is back after 64 steps
C3_Witness ==
  /\ pc = "life" /\ g = 64
  /\ mem = ShiftGrid(GliderDR, 0, 14)
  /\ a = mem

(***************************************************************************)
(* The page selector                                                       *)
(***************************************************************************)
\* C4: the page selector stays in 0 .. lim, and every encoder detent moves it
\* by exactly one page up or down, stopping at the two ends of the range,
\* however detents and button presses interleave.
C4_PageInRange ==
  [][/\ patternSel' \in 0 .. lim
     /\ encN' = encN + 1 =>
          \/ patternSel' = (IF patternSel = lim THEN lim ELSE patternSel + 1)
          \/ patternSel' = (IF patternSel = 0 THEN 0 ELSE patternSel - 1)]_vars

\* nine detents from page 1 that never passed page 0 and ended on page lim:
\* an odd number of detents cannot add up to 8 pages, so one was stopped
C4_Witness ==
  /\ patternSel = lim /\ encN = 9
  /\ pressN = 0 /\ mem = ZeroGrid

\* C5: when setup() returns the page selector is 1 and the active grid is a
\* copy of p1, also when encoder edges arrived during the boot animation.
C5_BootOnPageOne ==
  [][(pc = "setup_copy" /\ pc' = "loop") => (patternSel' = 1 /\ a' = p1')]_vars

\* what a dispatch of patterns() is to leave behind for the page it served
Loaded ==
  /\ patternSel \in 1 .. 6 => a = Slot(patternSel)
  /\ patternSel = 0 => (a = mem /\ a \in RandomGrids)

\* the step that ends a dispatch: the interrupt handler as a whole, or the
\* body of patterns() called by the main program
EncoderDispatch == encN' = encN + 1
MainDispatch == pc = "patterns_body" /\ pc' = "patterns_ret"

\* C6: right after a dispatch the active grid is a copy of the slot of the
\* selected page 1 .. 6, or on page 0 a fresh random grid equal to the seed.
C6_DispatchLoadsPage ==
  [][(EncoderDispatch \/ MainDispatch) => Loaded']_vars

ButtonPress == pc = "readButt" /\ pc' = "patterns"

Saved == patternSel = 4 + c /\ a = Slot(4 + c) /\ a = mem

\* C7: a press on page 0 copies the seed into slot 4 + (cursor mod 3), leaves
\* the other two writable slots alone, advances the cursor by one, sets the
\* page to that slot and makes the saved grid the active grid.
C7_SaveOnPageZero ==
  [][/\ (ButtonPress /\ patternSel = 0) =>
          /\ counter' = counter + 1
          /\ patternSel' = 4 + (counter % 3)
          /\ p4' = (IF counter % 3 = 0 THEN mem ELSE p4)
          /\ p5' = (IF counter % 3 = 1 THEN mem ELSE p5)
          /\ p6' = (IF counter % 3 = 2 THEN mem ELSE p6)
     /\ (MainDispatch /\ ret = "save") => Saved']_vars

\* C8 as stated: the press that follows the first save (page 4, cursor 1) is
\* the second of three presses in succession and writes slot 5.
C8_ThreePressesInSuccession ==
  [][(ButtonPress /\ patternSel = 4 /\ counter = 1) =>
        (counter' = 2 /\ patternSel' = 5 /\ p5' = mem)]_vars

\* the writable slots are populated in the order 4, 5, 6 of the cursor
PopulatedInOrder ==
  /\ counter = 0 => (p4 = ZeroGrid /\ p5 = ZeroGrid /\ p6 = ZeroGrid)
  /\ counter = 1 => (p4 # ZeroGrid /\ p5 = ZeroGrid /\ p6 = ZeroGrid)
  /\ counter = 2 => (p4 # ZeroGrid /\ p5 # ZeroGrid /\ p6 = ZeroGrid)
  /\ counter >= 3 => (p4 # ZeroGrid /\ p5 # ZeroGrid /\ p6 # ZeroGrid)

\* C8 as amended: presses alternate between saving and returning to page 0.
\* A press that finds page 0 writes slot 4 + (cursor mod 3) and no other,
\* advances the cursor by one and sets the page selector to the slot written;
\* a press that finds another page writes no slot and sets the selector to
\* 0.  So the saving presses populate slots 4, 5, 6 in that order.
C8_SavesRoundRobin ==
  [][/\ PopulatedInOrder'
     /\ (ButtonPress /\ patternSel = 0) =>
          /\ counter' = counter + 1
          /\ patternSel' = 4 + (counter % 3)
          /\ \A k \in 4 .. 6 : IF k = 4 + (counter % 3) THEN Slot(k)' # ZeroGrid
                                                         ELSE Slot(k)' = Slot(k)
     /\ (ButtonPress /\ patternSel # 0) =>
          /\ patternSel' = 0
          /\ UNCHANGED <<saveSlots, counter>>]_vars

\* the fourth save: the cursor went 0 -> 1 -> 2 -> 0 and slot 4 is written again
C8_Witness ==
  /\ counter = 4 /\ pc = "patterns" /\ ret = "save" /\ patternSel = 4
  /\ p4 = mem /\ p5 # ZeroGrid /\ p6 # ZeroGrid

\* C9: a press on a page other than 0 sets the page to 0, makes a new random
\* grid the active grid and the seed, clears the settled flag and changes no
\* slot and not the save cursor.
C9_PressLeavesForPageZero ==
  [][/\ (ButtonPress /\ patternSel # 0) =>
          (patternSel' = 0 /\ UNCHANGED <<fixedSlots, saveSlots, counter>>)
     /\ (MainDispatch /\ ret = "zero") =>
          /\ patternSel' = 0
          /\ a' = mem' /\ mem' \in RandomGrids
          /\ periodic' = FALSE
          /\ UNCHANGED <<fixedSlots, saveSlots, counter>>]_vars

\* C10: every dispatch resets the detector: after an encoder detent or a
\* button press has been dispatched the settled flag is false.
C10_DispatchResetsDetector ==
  [][(EncoderDispatch \/ (MainDispatch /\ ret \in {"save", "zero"}))
        => periodic' = FALSE]_vars

(***************************************************************************)
(* The periodicity detector and the settlement timeout                     *)
(***************************************************************************)
\* the step of the main program that runs checkPeriodic()
Observe == pc = "checkPeriodic" /\ pc' = "delay"

\* C11: when the grid fed to the detector equals one of the three grids fed
\* before it (the fed sequence repeats with period 1, 2 or 3: the second,
\* third or fourth observation of such a sequence at the latest) and the
\* settled flag is false, the detector sets the flag and records the time,
\* whatever the oldest entry of the ring held.
C11_SettlesWithinFour ==
  [][(Observe /\ ~periodic /\ Pack(a) \in {r1, r2, r3})
        => (periodic' /\ timeoutPrevious' = timeoutCurrent)]_vars

\* the pulsar drawn on page 0 is flagged at its fourth observation, and not
\* before: the newest grid equals the oldest of the ring only
C11_Witness ==
  /\ pc = "delay" /\ periodic /\ patternSel = 0 /\ mem = PulsarGrid
  /\ a = rulesGrid(mem) /\ r1 = Pack(a)
  /\ r4 = r1 /\ r2 # r1 /\ r3 # r1

\* C12 as stated: the glider of page 1 run from boot with no other event is
\* flagged settled at generation 64 exactly if the generation 64 grid equals
\* the generation 0 grid.
C12_GliderSettledAt64 ==
  (pc = "delay" /\ g = 64 /\ patternSel = 1 /\ encN = 0 /\ pressN = 0)
     => (periodic <=> a = p1)

\* C12 as amended: the checkpoint is compared and then overwritten only at
\* the generations that are multiples of 64, and it is all-zero until the
\* first of them.  With the glider of page 1 running from boot and no other
\* event, at generation 64 the grid equals the generation 0 grid but the
\* detector stays unsettled and the checkpoint takes that grid; at generation
\* 128 the detector is flagged exactly if the grid equals the checkpoint, as
\* it does; at no other generation is it flagged.
C12_GliderSettledAt128 ==
  [][(Observe /\ ~periodic) =>
       /\ r64' = (IF g % 64 = 0 THEN Pack(a) ELSE r64)
       /\ g < 64 => r64 = ZeroRows
       /\ g = 64 => (a = p1 /\ ~periodic')
       /\ g = 128 => (a = p1 /\ r64 = Pack(a) /\ periodic')
       /\ periodic' <=> ((g % 64 = 0 /\ Pack(a) = r64) \/ Pack(a) \in {r1, r2, r3})
       /\ g % 64 # 0 => ~periodic']_vars

C12_Witness ==
  /\ pc = "delay" /\ g = 128 /\ periodic /\ patternSel = 1
  /\ a = p1 /\ r64 = Pack(p1) /\ timeoutPrevious = timeoutCurrent

\* the step of the main program that tests the settlement timeout
TimeoutTest == pc = "rules_ret" /\ pc' # pc /\ periodic

TimeoutDispatch == MainDispatch /\ ret = "timeout"

C14_TimeoutOnPageZero ==
  [][/\ (TimeoutTest /\ patternSel = 0) =>
          /\ timeoutCurrent' = now
          /\ (pc' = "patterns") <=> (timeoutCurrent' - timeoutPrevious >= periodicTimeout)
          /\ (pc' # "patterns") => pc' = "delay"
     /\ (Observe /\ ~periodic /\ periodic') => timeoutPrevious' = timeoutCurrent
     /\ (periodic /\ periodic') => timeoutPrevious' = timeoutPrevious
     /\ (TimeoutDispatch /\ sel = 0) => (a' = mem' /\ a' \in DetectGrids /\ ~periodic')
     /\ (pc = "rules_scan" /\ pc' # pc) => (g' = g + 1 /\ a = Unpack(sweep(aTemp)))]_vars

\* the timeout fires on page 0 exactly periodicTimeout ms after the epoch
C14_Witness ==
  /\ pc = "patterns" /\ ret = "timeout" /\ patternSel = 0 /\ periodic
  /\ timeoutCurrent - timeoutPrevious = periodicTimeout

(***************************************************************************)
(* The renders                                                             *)
(***************************************************************************)
\* the positions in mat of the setRow calls, and of those made to tile t
RowWrites == {i \in 1 .. Len(mat) : mat[i].op = "setRow"}
RowWritesTo(t) == {i \in RowWrites : mat[i].addr = t}

\* the value tile t, row i shows when the render is over: the last one written
Shown(t, i) ==
  LET w == {k \in RowWritesTo(t) : mat[k].row = i}
  IN mat[CHOOSE k \in w : \A k2 \in w : k2 <= k].value

\* the logical cell that bit b of row i of tile t shows, in the code and as
\* stated by C15
CellRowOf(t, i) == i + s * (1 - (t \div 2))
CellColOf(t, b) == ((s - 1) - b) + s * (1 - (t % 2))
StatedRowOf(t, i) == i + s * (t \div 2)
StatedColOf(t, b) == ((s - 1) - b) + s * (t % 2)

Rendered == pc \in {"instant", "scan", "ripple"}

\* C15 as stated: cell (r, k) is shown by tile 2 * (row half) + (column half),
\* row r mod 8, bit k mod 8 counted from the most significant bit, in each of
\* the three renders; the single live cell (0, 0) gives a non-zero row write
\* to tile 0, row 0, most significant bit only.
C15_TileIndexAsStated ==
  Rendered =>
    /\ \A i \in RowWrites : \A b \in 0 .. (s - 1) :
         bitRead(mat[i].value, b) = 1 =>
           Cell(a, StatedRowOf(mat[i].addr, mat[i].row), StatedColOf(mat[i].addr, b)) = 1
    /\ \A t \in 0 .. 3, i \in 0 .. (s - 1), b \in 0 .. (s - 1) :
         bitRead(Shown(t, i), b) = Cell(a, StatedRowOf(t, i), StatedColOf(t, b))

\* C15 as amended: cell (r, k) is shown by tile 3 - (2 * (row half) + (column
\* half)), row r mod 8, bit k mod 8 counted from the most significant bit.
\* Every row write of each of the three renders lights only bits of live
\* cells at that place, and when the render is over every tile row shows
\* exactly the cells of its place; so the single live cell (0, 0) gives a
\* non-zero row write to tile 3, row 0, most significant bit only.
C15_TileIndex ==
  Rendered =>
    /\ \A i \in RowWrites : \A b \in 0 .. (s - 1) :
         bitRead(mat[i].value, b) = 1 =>
           Cell(a, CellRowOf(mat[i].addr, mat[i].row), CellColOf(mat[i].addr, b)) = 1
    /\ \A t \in 0 .. 3, i \in 0 .. (s - 1), b \in 0 .. (s - 1) :
         bitRead(Shown(t, i), b) = Cell(a, CellRowOf(t, i), CellColOf(t, b))
    /\ a = SingleCell(0, 0) =>
         \A i \in RowWrites :
           mat[i].value # 0 => (mat[i].addr = 3 /\ mat[i].row = 0 /\ mat[i].value = 2 ^ (s - 1))

\* the ripple has rendered the single live cell (0, 0): the masks that
\* reach the corner show it on tile 3, the ones before them show nothing
C15_Witness ==
  /\ pc = "ripple" /\ a = SingleCell(0, 0)
  /\ \E i \in RowWritesTo(3) : mat[i].row = 0 /\ mat[i].value = 2 ^ (s - 1)
  /\ \E i \in RowWritesTo(3) : mat[i].row = 0 /\ mat[i].value = 0

\* the tiles of the bottom row half (logical rows 8 .. 15) and of the top one
BottomTiles == {0, 1}
TopTiles == {2, 3}

\* each tile gets 8 row writes, one per row, and a delay follows each pair
ScanShape ==
  /\ Len(mat) = 3 * (2 * s)
  /\ \A i \in 1 .. Len(mat) : (mat[i].op = "delay") <=> (i % 3 = 0)
  /\ \A i \in 1 .. Len(mat) : mat[i].op = "delay" => mat[i].value >= 0
  /\ \A t \in 0 .. 3 :
       /\ Cardinality(RowWritesTo(t)) = s
       /\ \A i \in 0 .. (s - 1) : \E k \in RowWritesTo(t) : mat[k].row = i

\* C16 as stated: in one progressive scan all row writes of the bottom tiles
\* come before any row write of the top tiles, each tile gets exactly 8 row
\* writes and a delay follows each row pair.
C16_ScanBottomFirst ==
  pc = "scan" =>
    /\ ScanShape
    /\ \A i, j \in RowWrites :
         (mat[i].addr \in BottomTiles /\ mat[j].addr \in TopTiles) => i < j

\* C16 as amended: in one progressive scan all 8 row writes of each of the top
\* tiles (2 and 3, logical rows 0 .. 7) come before any row write of the
\* bottom tiles (0 and 1, logical rows 8 .. 15), each of the 4 tiles gets
\* exactly 8 row writes, one per row, and a delay follows each row pair.
C16_ScanTopFirst ==
  pc = "scan" =>
    /\ ScanShape
    /\ \A i, j \in RowWrites :
         (mat[i].addr \in TopTiles /\ mat[j].addr \in BottomTiles) => i < j

\* a scan of the two-glider grid of p2 at the slowest tick: the first row
\* write goes to tile 2 and the delays are 64 ms long
C16_Witness ==
  /\ pc = "scan" /\ a = P2Init /\ refreshRate = maxSpeed
  /\ mat[1].addr = 2 /\ mat[3].op = "delay" /\ mat[3].value = 64
  /\ mat[Len(mat) - 1].addr = 1

\* C17: no render changes the grid it is given: the active grid, the seed
\* and the six slots are the same before and after each of the three renders.
C17_RenderLeavesGrids ==
  [][(pc' \in {"instant", "scan", "ripple"} /\ mat' # mat)
        => UNCHANGED <<a, mem, fixedSlots, saveSlots>>]_vars

\* the ripple has rendered the grid of p3: 15 frames of 32 row writes, a
\* delay after each
C17_Witness ==
  /\ pc = "ripple" /\ a = P3Init /\ mem = P3Init
  /\ Len(mat) = 15 * ((4 * s) + 1) /\ refreshRate = 100

(***************************************************************************)
(* The slots, the encoder interrupt and the potentiometer                  *)
(***************************************************************************)
LifeStepOfLoop == pc \in {"rules", "rules_write", "rules_scan"} /\ pc' # pc

\* C18: the fixed slots p1 .. p3 always hold their initial contents; each of
\* the writable slots p4 .. p6 is all-zero until the save cursor has passed
\* it and changes only in a button press that finds page 0; the active grid is
\* a copy: no step that changes it changes a slot, and a life step changes
\* neither a slot nor the seed.
C18_SlotsKept ==
  [][/\ p1' = P1Init /\ p2' = P2Init /\ p3' = P3Init
     /\ \A k \in 4 .. 6 : counter' <= k - 4 => Slot(k)' = ZeroGrid
     /\ saveSlots' # saveSlots => (ButtonPress /\ patternSel = 0)
     /\ a' # a => UNCHANGED <<fixedSlots, saveSlots>>
     /\ LifeStepOfLoop => UNCHANGED <<fixedSlots, saveSlots, mem>>]_vars

\* a blinker saved to slot 4 has taken a life step on page 4: the active grid
\* has moved on, the slot and the seed have not
C18_Witness ==
  /\ pc = "delay" /\ patternSel = 4 /\ counter = 1
  /\ p4 = BlinkerGrid /\ mem = BlinkerGrid /\ a = rulesGrid(p4) /\ a # p4
  /\ p5 = ZeroGrid /\ p6 = ZeroGrid

\* C19: an encoder detent is applied atomically with respect to the main
\* loop: a detent that arrives while the main loop is inside a life step
\* takes effect before or after the step as a whole, so the grid the step
\* writes back is the successor of the active grid it finds, never the
\* successor of the grid of the page that was left.
C19_EncoderAtomic ==
  [][(pc = "rules_write" /\ pc' = "rules_scan") => a' = rulesGrid(a)]_vars

\* refreshRate as readPot() computes it from the reading v
rateOf(v) == constrain(map(v, 970, 10, minSpeed, maxSpeed), 42, 2500)

\* C20: for every reading 0 .. MaxReading the tick period readPot() computes
\* lies in 42 .. 2500 ms and is not larger than the period of any smaller
\* reading, and the brightness computed while the button is held lies in
\* 0 .. 15.
C20_PotRanges ==
  pc = "readButt" =>
    /\ refreshRate \in minSpeed .. maxSpeed
    /\ brightness \in 0 .. 15
    /\ \A v \in 0 .. MaxReading : v <= potVal => rateOf(v) >= refreshRate

\* the largest reading with the button held: the shortest period and the
\* brightest level
C20_Witness ==
  /\ pc = "readButt" /\ potVal = 1023
  /\ refreshRate = minSpeed /\ brightness = 15

(***************************************************************************)
(* The detector's ring and checkpoint, and the tick                        *)
(***************************************************************************)
\* C21: one observation of the detector discards the oldest entry of the
\* ring, moves the three newer entries back one place and makes the packed
\* new grid the front entry; it overwrites the checkpoint with the new grid
\* exactly when the generation counter is a multiple of 64, whether or not a
\* comparison matched, and leaves it unchanged at every other generation; no
\* other step changes the ring or the checkpoint.
C21_RingShifts ==
  [][/\ Observe =>
          /\ r1' = Pack(a) /\ r2' = r1 /\ r3' = r2 /\ r4' = r3
          /\ g % 64 = 0 => r64' = Pack(a)
          /\ g % 64 # 0 => r64' = r64
     /\ ring' # ring => Observe]_vars

\* the observation of generation 64: nothing matched (the checkpoint was
\* all-zero, the ring holds three other phases of the glider) and the
\* checkpoint has taken the new grid
C21_Witness ==
  /\ pc = "delay" /\ g = 64 /\ ~periodic
  /\ r1 = Pack(a) /\ r64 = r1 /\ r64 # ZeroRows
  /\ r2 # r1 /\ r3 # r1 /\ r4 # r1 /\ r2 # r3 /\ r3 # r4

\* the steps of one tick of the main loop
TickDue == pc = "millis" /\ pc' = "rules"
TickSweep == pc = "rules" /\ pc' # pc
TickWrite == pc = "rules_write" /\ pc' # pc
TickScan == pc = "rules_scan" /\ pc' # pc
TickEnd == pc = "rules_ret" /\ pc' # pc

\* a dispatch of a populated page, by the interrupt handler or the main program
PopulatedDispatch ==
  \/ EncoderDispatch /\ patternSel' \in 0 .. 6
  \/ MainDispatch /\ sel \in 0 .. 6

\* C22 as stated: a tick comes only when a tick period has passed since the
\* previous tick, and a page dispatch starts the tick period again at the time
\* of the dispatch; every tick applies one life step, adds exactly 1 to the
\* generation counter, which nothing else changes, issues one progressive scan
\* of the resulting grid and feeds the resulting grid to the detector.
C22_TickFeedsDetector ==
  [][/\ TickDue => now - previous >= refreshRate
     /\ PopulatedDispatch => previous' >= now
     /\ TickSweep => (aTemp' = Pack(a) /\ aTemp2' = sweep(aTemp'))
     /\ TickWrite => a' = Unpack(aTemp2)
     /\ TickScan => (g' = g + 1 /\ mat' = updateDisplayScan(a, refreshRate))
     /\ g' # g => TickScan
     /\ TickEnd => pc' = "checkPeriodic"
     /\ Observe => r1' = Pack(a)]_vars

\* C22 as amended: a tick is taken exactly when the time the loop has just
\* read lies at least one tick period after the time kept in previous.  The
\* tick computes one life step from the active grid it finds and stores the
\* result as the active grid, issues one progressive scan of the active grid
\* and adds exactly 1 to the generation counter, which no other step changes;
\* it then sets previous to the time read at the start of the tick and, only
\* if the settled flag is false, feeds the active grid to the detector (if the
\* flag is set the detector is not fed).  A dispatch of a populated page sets
\* previous to the time the loop read last, which is never later than the
\* time of the dispatch; a dispatch made on timeout follows that reading by
\* the duration of the scan, so the next life step follows it by one tick
\* period less the duration of the scan.
C22_TickStepsOnce ==
  [][/\ (pc = "millis" /\ pc' # pc) => (pc' = "rules" <=> now - previous >= refreshRate)
     /\ PopulatedDispatch => (previous' = current /\ previous' <= now)
     /\ TimeoutDispatch /\ sel \in 0 .. 6 => now - previous' = scanTime(refreshRate)
     /\ TickSweep => (aTemp' = Pack(a) /\ aTemp2' = sweep(aTemp') /\ pc' = "rules_write")
     /\ TickWrite => (a' = Unpack(aTemp2) /\ pc' = "rules_scan")
     /\ TickScan => /\ g' = g + 1 /\ mat' = updateDisplayScan(a, refreshRate)
                    /\ a' = a /\ pc' = "rules_ret"
     /\ g' # g => TickScan
     /\ TickEnd => (previous' = current /\ (pc' = "checkPeriodic" <=> ~periodic))
     /\ ring' # ring => (Observe /\ ~periodic)
     /\ Observe => r1' = Pack(a)]_vars

\* a tick taken with the settled flag set: the blinker drawn on page 0 was
\* flagged at its third observation; the fourth life step was applied and
\* scanned and the detector was not fed its result
C22_Witness ==
  /\ pc = "delay" /\ periodic /\ patternSel = 0 /\ mem = BlinkerGrid
  /\ a = mem /\ r1 = Pack(rulesGrid(mem)) /\ r1 # Pack(a)
  /\ mat = updateDisplayScan(a, refreshRate)
  /\ timeoutCurrent - timeoutPrevious < periodicTimeout

(***************************************************************************)
(* The pages without a branch in patterns(), and the clamped detents       *)
(***************************************************************************)
\* what a dispatch that changes nothing leaves alone
DispatchFrame == <<a, mem, periodic, fixedSlots, saveSlots, counter, previous, mat, ring, g>>

\* C23: pages 7, 8 and 9 are inert: a dispatch that lands on one of them, by
\* an encoder detent or by the main program, changes neither the active grid,
\* the settled flag, the seed, a slot nor the tick timer and issues no render;
\* a button press that finds one of them sets the page to 0 and calls the
\* dispatch as on every page but 0, saving nothing.
C23_InertPages ==
  [][/\ (EncoderDispatch /\ patternSel' \in 7 .. lim) => UNCHANGED DispatchFrame
     /\ (MainDispatch /\ sel \in 7 .. lim) => UNCHANGED DispatchFrame
     /\ (ButtonPress /\ patternSel \in 7 .. lim) =>
          /\ patternSel' = 0 /\ ret' = "zero"
          /\ UNCHANGED <<fixedSlots, saveSlots, counter, a, mem>>]_vars

\* eight detents from page 1 have ended on page 9: the last three were
\* dispatched to pages 7, 8 and 9, and the display and the active grid are
\* still those of page 6, an empty slot
C23_Witness ==
  /\ patternSel = lim /\ encN = 8 /\ pressN = 0 /\ pc = "readButt"
  /\ a = p6 /\ a # p1 /\ mat = updateDisplay(p6) /\ mem = ZeroGrid

\* C24: every encoder detent dispatches the page it ends on, also when the
\* clamp leaves the page as it was: a counter-clockwise detent on page 0 keeps
\* the page at 0, draws a new random grid, makes it the active grid and the
\* seed and renders it; a detent that ends on one of the pages 1 .. 6 copies
\* that page's slot into the active grid and renders it, whatever generation
\* the active grid had reached.
C24_EveryDetentDispatches ==
  [][EncoderDispatch =>
       /\ \/ patternSel' = (IF patternSel = lim THEN lim ELSE patternSel + 1)
          \/ patternSel' = (IF patternSel = 0 THEN 0 ELSE patternSel - 1)
       /\ patternSel' = 0 => (a' = mem' /\ mem' \in RandomGrids /\ ~periodic')
       /\ patternSel' \in 1 .. 6 => (a' = Slot(patternSel') /\ mem' = mem)
       /\ patternSel' \in 0 .. 6 => (mat' = updateDisplay(a') /\ previous' = current)
       /\ UNCHANGED <<g, fixedSlots, saveSlots, counter>>]_vars

\* two counter-clockwise detents from page 1 and two ticks: the first detent
\* drew the block, which a tick fed to the detector; the second was stopped
\* at page 0 and drew the blinker, now the active grid and the seed, after
\* both generations
C24_Witness ==
  /\ patternSel = 0 /\ encN = 2 /\ g = 2
  /\ mem = BlinkerGrid /\ a = mem /\ r1 = Pack(BlockGrid)
  /\ ~periodic /\ mat = updateDisplay(a)

(***************************************************************************)
(* The ripple masks and the 15-frame renders                               *)
(***************************************************************************)
\* the cells set in grid u
CellsOf(u) == {rk \in Rows \X Cols : Cell(u, rk[1], rk[2]) = 1}

\* a 15-frame render: 4 * s row writes and one delay per frame
FrameLen == (4 * s) + 1
FrameCalls(q) == ((q - 1) * FrameLen + 1) .. (q * FrameLen)
FrameWrites(q) == {k \in FrameCalls(q) : mat[k].op = "setRow"}

\* the value frame q writes to row i of tile t
FrameShown(q, t, i) ==
  mat[CHOOSE k \in FrameWrites(q) : mat[k].addr = t /\ mat[k].row = i].value

\* the logical grid frame q shows, by the tile mapping of updateDisplay()
FrameGrid(q) ==
  [r \in Rows |-> [j \in Halves |-> FrameShown(q, 3 - ((2 * (r \div s)) + j), r % s)]]

\* mat holds 15 full frames, each of one write to every row of the 4 tiles
\* followed by one delay of ms milliseconds
FullFrames(ms) ==
  /\ Len(mat) = 15 * FrameLen
  /\ \A q \in 1 .. 15 :
       /\ mat[q * FrameLen] = delay(ms)
       /\ Cardinality(FrameWrites(q)) = 4 * s
       /\ \A tl \in 0 .. 3, i \in 0 .. (s - 1) :
            \E k \in FrameWrites(q) : mat[k].addr = tl /\ mat[k].row = i

\* C25: the ripple mask table is 15 grids of growing coverage: every cell
\* set in a mask is set in the next one, each mask sets strictly more cells
\* than the one before and the last sets all 256; the table never changes:
\* the frames rippleTest() shows at boot are the 15 masks, and so are the
\* frames of a reveal of the all-live grid.
C25_MasksGrow ==
  /\ Len(rip) = 15
  /\ \A q \in 1 .. 15 : IsGrid(rip[q])
  /\ \A q \in 1 .. 14 :
       /\ CellsOf(rip[q]) \subseteq CellsOf(rip[q + 1])
       /\ Cardinality(CellsOf(rip[q])) < Cardinality(CellsOf(rip[q + 1]))
  /\ Cardinality(CellsOf(rip[15])) = n * m
  /\ (pc = "setup_copy" \/ (pc = "ripple" /\ a = FullGrid)) =>
       \A q \in 1 .. 15 : FrameGrid(q) = rip[q]

\* rippleTest() has shown the table: the first frame lights the 4 cells at
\* the centre, the last one every cell
C25_Witness ==
  /\ pc = "setup_copy" /\ Len(mat) = 15 * FrameLen
  /\ CellsOf(FrameGrid(1)) = {<<7, 7>>, <<7, 8>>, <<8, 7>>, <<8, 8>>}
  /\ FrameGrid(15) = FullGrid

\* the reveal of grid a: 15 full frames, frame q showing a masked by mask q,
\* each frame within the next and the last one equal to a
RevealOf(ms) ==
  /\ FullFrames(ms)
  /\ \A q \in 1 .. 15 :
       /\ IsGrid(FrameGrid(q))
       /\ CellsOf(FrameGrid(q)) = CellsOf(a) \cap CellsOf(rip[q])
  /\ \A q \in 1 .. 14 : CellsOf(FrameGrid(q)) \subseteq CellsOf(FrameGrid(q + 1))
  /\ FrameGrid(15) = a

PotRead == pc = "loop" /\ pc' = "readButt"

\* brightness as readPot() computes it from the reading v while the button
\* is held
levelOf(v) == map(v, 0, 970, 0, 15)

\* C27 as stated: the reading drives either the tick period or the
\* brightness: a call of readPot() that changes the brightness, as only a
\* call with the button held does, leaves the tick period as it was.
C27_EitherPeriodOrBrightness ==
  [][PotRead =>
       /\ brightness' \in {brightness, levelOf(potVal')}
       /\ brightness' # brightness => refreshRate' = refreshRate]_vars

\* C27 as amended: every call of readPot() sets the tick period from the
\* reading, whether the button is held or not; the brightness either stays
\* as it was or, in a call with the button held for the long-press duration,
\* becomes the level computed from the same reading.
C27_PeriodAlwaysBrightnessHeld ==
  [][PotRead =>
       /\ refreshRate' = rateOf(potVal')
       /\ brightness' \in {brightness, levelOf(potVal')}]_vars

\* the reading 500 taken with the button held: the brightness went from 0
\* to 7 and the tick period from 100 to 1245 in the same call
C27_Witness ==
  /\ pc = "readButt" /\ potVal = 500
  /\ brightness = 7 /\ refreshRate = 1245

(***************************************************************************)
(* Settlement and the run of one page                                      *)
(***************************************************************************)
\* C28: the settled flag is set only when the grid just produced equals a
\* grid produced earlier in the same run, never by what an earlier run left
\* in the ring.  The instance the claim gives: a seed saved from page 0 after
\* at most one tick and stepped once on its saved page, the step giving a
\* grid other than the seed, is not settled.
C28_SettlesOnOwnRun ==
  (/\ pc = "delay" /\ patternSel = 4 /\ counter = 1 /\ pressN = 2 /\ g = 2
   /\ p4 = mem /\ a = rulesGrid(p4) /\ a # p4)
     => ~periodic

\* C29: when settlement was detected on a populated page and no input event
\* follows, the dispatch made on timeout loads the page's source grid and
\* leaves the settled flag false, so that the ticks that follow feed the
\* detector again and do not each reload the source grid.
C29_TimeoutClearsFlag ==
  [][(TimeoutDispatch /\ sel \in 0 .. 6 /\ encN = 0 /\ pressN = 0)
        => (a' = (IF sel = 0 THEN mem' ELSE Slot(sel)) /\ ~periodic')]_vars

(***************************************************************************)
(* The stored half rows                                                    *)
(***************************************************************************)
\* the grids the program stores: the active grid, the seed and the six slots
StoredGrids == {a, mem} \cup {Slot(k) : k \in 1 .. 6}

\* C30: every stored half row of the active grid, the seed and the slots is
\* in 0 .. 255, so packing a grid and unpacking it gives the grid back; each
\* packed row of the active grid is below 2^16 and its bit m - 1 - k is cell
\* k of the row; the packed rows rules() works on are below 2^16 too.
C30_HalfRowsAreBytes ==
  /\ \A u \in StoredGrids : IsGrid(u) /\ Unpack(Pack(u)) = u
  /\ \A i \in Rows :
       /\ Pack(a)[i] \in 0 .. ((2 ^ m) - 1)
       /\ \A k \in Cols : bitRead(Pack(a)[i], (m - 1) - k) = Cell(a, i, k)
  /\ \A i \in Rows : aTemp[i] \in 0 .. ((2 ^ m) - 1) /\ aTemp2[i] \in 0 .. ((2 ^ m) - 1)

\* the pulsar saved to slot 4 has taken a life step on page 4: the rows of
\* the active grid came out of the unpacking with cells in both halves
C30_Witness ==
  /\ pc = "delay" /\ patternSel = 4 /\ p4 = PulsarGrid /\ mem = PulsarGrid
  /\ a = rulesGrid(p4) /\ a # p4 /\ Pack(a) = aTemp2
  /\ \E i \in Rows : a[i][0] # 0 /\ a[i][1] # 0

====
